---- MODULE Spec2Model ----
(***************************************************************************)
(* Model of report7.py, the drone multi-flight dashboard script: the load  *)
(* loop over the flight logs (schema reconciliation, coercion, date        *)
(* filter, per-flight summary), the combination into fleet tables, the KPI *)
(* block and plot_flight_metrics.                                          *)
(*                                                                         *)
(* Cells.  A CSV cell, a parsed value and a statistic are all records      *)
(* [k, a, b, c]: k names the kind and a, b, c carry integers.              *)
(*   raw text   "num"  a          the decimal text of the integer a        *)
(*              "ymd"  a, b, c    the text a-b-c (e.g. 2024-01-10)         *)
(*              "hms"  a, b, c    the text a:b:c (e.g. 13:05:00)           *)
(*              "text"            text that is none of the above           *)
(*              "na"              an empty cell / pd.NA                    *)
(*   parsed     "float" a         a number;  "nan"  the missing number     *)
(*              "date" a, b, c    a timestamp on day a-b-c; "nat" missing  *)
(*              "time" a, b, c    1900-01-01 a:b:c                         *)
(*              "td" a            a timedelta of a seconds                 *)
(*              "cents" a         a number rounded to 2 places, a/100      *)
(*              "frac" a, b       the exact mean a/b in lowest terms       *)
(*              "int" a           an integer;  "cat" a  a categorical code *)
(*              "str" a           the decimal string of a                  *)
(***************************************************************************)
EXTENDS Integers, Sequences, FiniteSets, TLC

\* Bounds of the model: number of input files, rows over all files.
MaxFiles == 2
MaxRows == 2

V(k, a, b, c) == [k |-> k, a |-> a, b |-> b, c |-> c]
Num(n) == V("num", n, 0, 0)
Ymd(y, m, d) == V("ymd", y, m, d)
Hms(h, m, s) == V("hms", h, m, s)
Text == V("text", 0, 0, 0)
NA == V("na", 0, 0, 0)
NaN == V("nan", 0, 0, 0)
NaT == V("nat", 0, 0, 0)
Float(n) == V("float", n, 0, 0)

required_cols ==
    << "Timestamp", "groundSpeed", "airSpeed", "altitudeRelative", "altitudeAMSL",
       "flightDistance", "flightTime", "distanceToHome",
       "battery0.voltage", "battery0.current", "battery0.percentRemaining",
       "battery0.instantPower", "gps.lat", "gps.lon",
       "clock.currentDate", "clock.currentTime" >>

Range(s) == { s[j] : j \in 1..Len(s) }
RequiredSet == Range(required_cols)

\* The six columns of the numeric coercion loop.
numeric_cols ==
    << "flightDistance", "altitudeRelative", "groundSpeed", "airSpeed",
       "battery0.percentRemaining", "battery0.instantPower" >>

metrics ==
    << <<"groundSpeed", "Ground Speed">>, <<"airSpeed", "Air Speed">>,
       <<"altitudeRelative", "Altitude">>,
       <<"battery0.percentRemaining", "Battery %">> >>

month_order ==
    << "Jan", "Feb", "Mar", "Apr", "May", "Jun",
       "Jul", "Aug", "Sep", "Oct", "Nov", "Dec" >>
weekday_order ==
    << "Monday", "Tuesday", "Wednesday", "Thursday", "Friday", "Saturday", "Sunday" >>

Pad2(n) == IF n < 10 THEN "0" \o ToString(n) ELSE ToString(n)

\* "%H %p" in place of "%I %p": the 24-hour number with the AM/PM mark.
Strftime12_24h(h) == Pad2(h) \o " " \o (IF h < 12 THEN "AM" ELSE "PM")

\* strptime(str(h), "%H").strftime("%I %p") for an integer h in 0..23.
Strftime12(h) ==
    Pad2(IF h % 12 = 0 THEN 12 ELSE h % 12) \o " " \o (IF h < 12 THEN "AM" ELSE "PM")

hour_order == [ j \in 1..24 |-> Strftime12(j - 1) ]

(***************************************************************************)
(* Parsing: pd.to_datetime, pd.to_numeric, pd.to_timedelta with            *)
(* errors="coerce".                                                        *)
(***************************************************************************)
IsLeap(y) == (y % 4 = 0 /\ y % 100 # 0) \/ y % 400 = 0

DaysIn(y, m) ==
    IF m = 2 THEN (IF IsLeap(y) THEN 29 ELSE 28)
    ELSE IF m \in {4, 6, 9, 11} THEN 30 ELSE 31

\* pd.to_datetime(col, errors="coerce") on one cell: a calendar day or NaT.
ToDate(x) ==
    IF x.k = "ymd" /\ x.a \in 1678..2261 /\ x.b \in 1..12 /\ x.c >= 1
       /\ x.c <= DaysIn(x.a, x.b)
    THEN V("date", x.a, x.b, x.c)
    ELSE NaT

\* pd.to_datetime(col, format="%H:%M:%S", errors="coerce") on one cell.
ToTime(x) ==
    IF x.k = "hms" /\ x.a \in 0..23 /\ x.b \in 0..59 /\ x.c \in 0..59
    THEN V("time", x.a, x.b, x.c)
    ELSE NaT

\* pd.to_numeric(col, errors="coerce") on one cell.
ToNumeric(x) == IF x.k = "num" THEN Float(x.a) ELSE NaN

\* pd.to_timedelta(col, errors="coerce") on one cell (h:m:s text).
ToTimedelta(x) ==
    IF x.k = "hms" /\ x.a >= 0 /\ x.b \in 0..59 /\ x.c \in 0..59
    THEN V("td", x.a * 3600 + x.b * 60 + x.c, 0, 0)
    ELSE NaT

IsNA(x) == x.k \in {"na", "nan", "nat"}


(***************************************************************************)
(* Reductions of one column (a sequence of parsed cells): pandas skips the *)
(* missing cells and returns the missing value when nothing is left.       *)
(***************************************************************************)
RECURSIVE Gcd(_, _)
Gcd(x, y) == IF y = 0 THEN x ELSE Gcd(y, x % y)

Present(col) == { j \in 1..Len(col) : ~IsNA(col[j]) }

RECURSIVE SumOver(_, _)
SumOver(col, J) ==
    IF J = {} THEN 0
    ELSE LET j == CHOOSE j \in J : TRUE IN col[j].a + SumOver(col, J \ {j})

\* Series.max() / Series.min(): skipna, the missing value `na` on no data.
ColMax(col, na) ==
    IF Present(col) = {} THEN na
    ELSE col[CHOOSE j \in Present(col) : \A l \in Present(col) : col[l].a <= col[j].a]

ColMin(col, na) ==
    IF Present(col) = {} THEN na
    ELSE col[CHOOSE j \in Present(col) : \A l \in Present(col) : col[j].a <= col[l].a]

\* round(x, 2) of x = s/n, as a count of hundredths (ties to even).
Round2(s, n) ==
    LET q == (100 * s) \div n
        r == (100 * s) % n
    IN  IF 2 * r < n THEN q
        ELSE IF 2 * r > n THEN q + 1
        ELSE IF q % 2 = 0 THEN q ELSE q + 1

\* The rounded mean with the missing cells counted as zeros (fillna(0)).
ColMeanRound_ZeroFill(col) ==
    IF Len(col) = 0 THEN NaN
    ELSE V("cents", Round2(SumOver(col, Present(col)), Len(col)), 0, 0)

\* round(Series.mean(), 2) of a numeric column.
ColMeanRound(col) ==
    IF Present(col) = {} THEN NaN
    ELSE V("cents", Round2(SumOver(col, Present(col)), Cardinality(Present(col))), 0, 0)

\* Series.mean(), unrounded, as a fraction in lowest terms; kind k.
ColMean(col, k, na) ==
    IF Present(col) = {} THEN na
    ELSE LET s == SumOver(col, Present(col))
             n == Cardinality(Present(col))
             g == Gcd(s, n)
         IN  V(k, s \div g, n \div g, 0)

(***************************************************************************)
(* Input files.  The content of a file is its header (a set of column     *)
(* names) and its rows (functions from the header to raw cells).           *)
(***************************************************************************)
ExtraCol == "vehicle.name"

\* The other readings of a row, made to differ from column to column.
Derived(x, mul, add) == IF x.k = "num" THEN Num(x.a * mul + add) ELSE x

\* A full row of the ground station's export; lat tells the rows apart.
RawRow(date, time, speed, ftime, lat) ==
    [ c \in RequiredSet \cup {ExtraCol} |->
        CASE c = "clock.currentDate" -> date
          [] c = "clock.currentTime" -> time
          [] c = "groundSpeed" -> speed
          [] c = "airSpeed" -> Derived(speed, 1, 1)
          [] c = "altitudeRelative" -> Derived(speed, 10, 0)
          [] c = "flightDistance" -> Derived(speed, 100, 0)
          [] c = "battery0.percentRemaining" -> Derived(speed, -10, 100)
          [] c = "battery0.instantPower" -> Derived(speed, 2, 1)
          [] c = "flightTime" -> ftime
          [] c = "gps.lat" -> Num(lat)
          [] c = "Timestamp" -> Ymd(2024, 1, 1)
          [] c = ExtraCol -> Text
          [] OTHER -> Num(1) ]

\* The rows the model feeds: two January days, a March day with a malformed
\* time and unparsable numbers, and a day that does not exist.
RowChoices ==
    << RawRow(Ymd(2024, 1, 10), Hms(0, 15, 0), Num(5), Hms(0, 1, 0), 1),
       RawRow(Ymd(2024, 1, 11), Hms(13, 5, 0), Num(8), Hms(0, 2, 30), 2),
       RawRow(Ymd(2024, 3, 5), Hms(24, 0, 0), Text, Text, 3),
       RawRow(Ymd(2024, 2, 30), Hms(9, 30, 0), Num(3), Hms(0, 5, 0), 4) >>

\* Headers: a superset of the required columns, a subset that keeps
\* Timestamp, and the required columns without Timestamp.
HeaderChoices ==
    << RequiredSet \cup {ExtraCol},
       RequiredSet \ {"clock.currentTime", "flightTime", "groundSpeed", "gps.lon"},
       RequiredSet \ {"Timestamp"} >>

Restrict(f, S) == [ c \in S |-> f[c] ]

\* A file on disk is named by the header and the rows it holds:
\* [header |-> index in HeaderChoices, rows |-> indices in RowChoices].
\* Its content, as read_csv sees it, is a header and rows over that header.
FileContent(name) ==
    [ header |-> HeaderChoices[name.header],
      rows |-> [ j \in 1..Len(name.rows) |->
                   Restrict(RowChoices[name.rows[j]], HeaderChoices[name.header]) ] ]

\* The files of exactly k rows.  read_csv never gets past the header of a
\* file without Timestamp, so such a file is given no rows.
FilesOf(k) ==
    { [ header |-> h, rows |-> rs ] :
        h \in { g \in 1..Len(HeaderChoices) : k = 0 \/ "Timestamp" \in HeaderChoices[g] },
        rs \in [1..k -> 1..Len(RowChoices)] }

\* Every list of `rests` with a file of `files` put in front.
Prepend(files, rests) == { << f >> \o rest : f \in files, rest \in rests }

\* The lists of at most n files that hold at most r rows together.
RECURSIVE InputsWithin(_, _)
InputsWithin(n, r) ==
    IF n = 0 THEN { << >> }
    ELSE { << >> } \cup
         UNION { Prepend(FilesOf(k), InputsWithin(n - 1, r - k)) : k \in 0..r }

Inputs == InputsWithin(MaxFiles, MaxRows)

(***************************************************************************)
(* State.                                                                  *)
(***************************************************************************)
VARIABLES
    all_files,          \* glob's result: the names of the files, in order
    i,                  \* number of files the load loop has finished
    pc,                 \* "load", "report", "tiles", "charts", "error"
    err,                \* the exception that ended the run or the call, or "none"
    flight_summaries,   \* list of summary records
    gps_data,           \* list of per-file GPS frames
    all_dfs,            \* list of per-file normalized frames
    flight_summary,     \* DataFrame of the summaries
    gps_all,            \* concatenated GPS frames
    df_all,             \* concatenated normalized frames
    kpi,                \* the KPI tiles, once computed
    call,               \* arguments of the plot_flight_metrics call, once made
    figs                \* its return value: display name -> chart

vars == << all_files, i, pc, err, flight_summaries, gps_data, all_dfs,
           flight_summary, gps_all, df_all, kpi, call, figs >>

NoTable == [ columns |-> {}, rows |-> << >> ]
NoKpi == [ computed |-> FALSE ]
NoCall == [ made |-> FALSE ]

Init ==
    /\ all_files \in Inputs
    /\ i = 0
    /\ pc = "load"
    /\ err = "none"
    /\ flight_summaries = << >>
    /\ gps_data = << >>
    /\ all_dfs = << >>
    /\ flight_summary = NoTable
    /\ gps_all = NoTable
    /\ df_all = NoTable
    /\ kpi = NoKpi
    /\ call = NoCall
    /\ figs = << >>

(***************************************************************************)
(* The load loop, one file per step.                                       *)
(***************************************************************************)
\* f"flight_{i}" in place of f"flight_{i+1}".
FlightId_ZeroBased(n) == "flight_" \o ToString(n - 1)

\* Line 48: f"flight_{i+1}", n being i + 1.
FlightId(n) == "flight_" \o ToString(n)

FrameCols == RequiredSet \cup {"flight_id", "date", "time"}

\* Lines 39-51: keep the required columns the file has, add the others as
\* pd.NA, then flight_id, date and time.
Reconcile(file, fid) ==
    [ j \in 1..Len(file.rows) |->
        [ c \in FrameCols |->
            CASE c = "flight_id" -> fid
              [] c = "date" ->
                   ToDate(IF "clock.currentDate" \in file.header
                          THEN file.rows[j]["clock.currentDate"] ELSE NA)
              [] c = "time" ->
                   ToTime(IF "clock.currentTime" \in file.header
                          THEN file.rows[j]["clock.currentTime"] ELSE NA)
              [] OTHER -> IF c \in file.header THEN file.rows[j][c] ELSE NA ] ]

\* The filter on the time column in place of the date column.
DropInvalid_ByTime(rows) == SelectSeq(rows, LAMBDA r : ~IsNA(r["time"]))

\* Line 54: df[df["date"].notna()].reset_index(drop=True).
DropInvalid(rows) == SelectSeq(rows, LAMBDA r : ~IsNA(r["date"]))

\* Lines 57-62: numeric columns and flightTime.
Coerce(rows) ==
    [ j \in 1..Len(rows) |->
        [ c \in FrameCols |->
            IF c \in Range(numeric_cols) THEN ToNumeric(rows[j][c])
            ELSE IF c = "flightTime" THEN ToTimedelta(rows[j][c])
            ELSE rows[j][c] ] ]

Column(rows, c) == [ j \in 1..Len(rows) |-> rows[j][c] ]

\* Lines 65-80.
Summary(fid, rows) ==
    [ flight_id |-> fid,
      flight_time |-> ColMax(Column(rows, "flightTime"), NaT),
      flight_distance |-> ColMax(Column(rows, "flightDistance"), NaN),
      max_altitude |-> ColMax(Column(rows, "altitudeRelative"), NaN),
      max_ground_speed |-> ColMax(Column(rows, "groundSpeed"), NaN),
      max_air_speed |-> ColMax(Column(rows, "airSpeed"), NaN),
      min_battery |-> ColMin(Column(rows, "battery0.percentRemaining"), NaN),
      avg_power |-> ColMeanRound(Column(rows, "battery0.instantPower")),
      avg_altitude |-> ColMeanRound(Column(rows, "altitudeRelative")),
      avg_flight_time |-> ColMean(Column(rows, "flightTime"), "tdfrac", NaT),
      avg_flight_distance |-> ColMeanRound(Column(rows, "flightDistance")),
      avg_ground_speed |-> ColMeanRound(Column(rows, "groundSpeed")),
      avg_air_speed |-> ColMeanRound(Column(rows, "airSpeed")),
      avg_battery_remaining |-> ColMeanRound(Column(rows, "battery0.percentRemaining")) ]

\* Line 84: df[["gps.lat", "gps.lon", "flight_id"]].
GpsFrame(rows) ==
    [ j \in 1..Len(rows) |->
        [ c \in {"gps.lat", "gps.lon", "flight_id"} |-> rows[j][c] ] ]

\* Line 36: read_csv(file, parse_dates=["Timestamp"]) raises ValueError
\* ("Missing column provided to 'parse_dates'") on a header without Timestamp.
ReadCsvRaises(file) == "Timestamp" \notin file.header

LoadFile ==
    /\ pc = "load"
    /\ i < Len(all_files)
    /\ IF ReadCsvRaises(FileContent(all_files[i + 1]))
       THEN /\ pc' = "error"
            /\ err' = "ValueError: missing parse_dates column"
            /\ UNCHANGED << i, flight_summaries, gps_data, all_dfs >>
       ELSE \E df \in { Coerce(DropInvalid(Reconcile(FileContent(all_files[i + 1]),
                                                        FlightId(i + 1)))) } :
            /\ flight_summaries' = Append(flight_summaries, Summary(FlightId(i + 1), df))
            /\ gps_data' = Append(gps_data, GpsFrame(df))
            /\ all_dfs' = Append(all_dfs, df)
            /\ i' = i + 1
            /\ UNCHANGED << pc, err >>
    /\ UNCHANGED << all_files, flight_summary, gps_all, df_all, kpi, call, figs >>

(***************************************************************************)
(* Lines 90-92: the combined tables.  DataFrame([]) and DataFrame() have   *)
(* no columns at all.                                                      *)
(***************************************************************************)
RECURSIVE Concat(_)
Concat(frames) == IF frames = << >> THEN << >> ELSE Head(frames) \o Concat(Tail(frames))

SummaryCols ==
    { "flight_id", "flight_time", "flight_distance", "max_altitude",
      "max_ground_speed", "max_air_speed", "min_battery", "avg_power",
      "avg_altitude", "avg_flight_time", "avg_flight_distance",
      "avg_ground_speed", "avg_air_speed", "avg_battery_remaining" }

SummaryFrame(summaries) ==
    IF summaries = << >> THEN NoTable
    ELSE [ columns |-> SummaryCols, rows |-> summaries ]

ConcatOrEmpty(frames, cols) ==
    IF frames = << >> THEN NoTable
    ELSE [ columns |-> cols, rows |-> Concat(frames) ]

Combine ==
    /\ pc = "load"
    /\ i = Len(all_files)
    /\ flight_summary' = SummaryFrame(flight_summaries)
    /\ gps_all' = ConcatOrEmpty(gps_data, {"gps.lat", "gps.lon", "flight_id"})
    /\ df_all' = ConcatOrEmpty(all_dfs, FrameCols)
    /\ pc' = "report"
    /\ UNCHANGED << all_files, i, err, flight_summaries, gps_data, all_dfs,
                    kpi, call, figs >>

(***************************************************************************)
(* Lines 97-133: the KPI block and its tiles.                              *)
(***************************************************************************)
\* format_timedelta
format_timedelta(td) ==
    IF IsNA(td) THEN "N/A"
    ELSE Pad2(td.a \div 3600) \o ":" \o Pad2((td.a % 3600) \div 60)
         \o ":" \o Pad2((td.a % 3600) % 60)

\* fmt: f"{float(value):.2f}" or "N/A"
fmt(value) == IF IsNA(value) THEN "N/A" ELSE ToString(value.a) \o ".00"

\* Series.sum(skipna=True) of a numeric column: 0 when nothing is present.
ColSum(col) == Float(SumOver(col, Present(col)))

\* A summary column holding only NaT is built as datetime64, and
\* datetime64 has no sum: line 111 raises TypeError.
FlightTimeSumRaises(col) == Present(col) = {}

\* The flights that have a flight time: not what line 110 counts.
TotalFlights_WithData(rows) ==
    Cardinality({ rows[j].flight_id : j \in { l \in 1..Len(rows) : ~IsNA(rows[l].flight_time) } })

\* Line 110: flight_summary["flight_id"].nunique()
TotalFlights(rows) == Cardinality({ rows[j].flight_id : j \in 1..Len(rows) })

Kpis ==
    /\ pc = "report"
    /\ IF "flight_id" \notin flight_summary.columns
       THEN /\ pc' = "error"
            /\ err' = "KeyError: flight_id"
            /\ kpi' = kpi
       ELSE LET rows == flight_summary.rows
                total_flights == TotalFlights(rows)
                times == Column(rows, "flight_time")
            IN  IF FlightTimeSumRaises(times)
                THEN /\ pc' = "error"
                     /\ err' = "TypeError: datetime64 sum"
                     /\ kpi' = [ computed |-> FALSE, total_flights |-> total_flights ]
                ELSE LET total_flight_time == V("td", SumOver(times, Present(times)), 0, 0)
                         total_flight_distance == ColSum(Column(rows, "flight_distance"))
                         max_altitude == ColMax(Column(rows, "max_altitude"), NaN)
                         max_ground_speed == ColMax(Column(rows, "max_ground_speed"), NaN)
                         max_air_speed == ColMax(Column(rows, "max_air_speed"), NaN)
                         min_battery == ColMin(Column(rows, "min_battery"), NaN)
                     IN  /\ kpi' = [ computed |-> TRUE,
                                     total_flights |-> total_flights,
                                     tiles |-> << ToString(total_flights),
                                                  format_timedelta(total_flight_time),
                                                  fmt(total_flight_distance),
                                                  fmt(max_altitude),
                                                  fmt(max_ground_speed),
                                                  fmt(max_air_speed),
                                                  fmt(min_battery) >> ]
                         /\ pc' = "tiles"
                         /\ err' = err
    /\ UNCHANGED << all_files, i, flight_summaries, gps_data, all_dfs,
                    flight_summary, gps_all, df_all, call, figs >>

(***************************************************************************)
(* Lines 157-215: plot_flight_metrics(df, group_col, metrics, chart_type). *)
(***************************************************************************)
\* The C locale's tables behind strftime("%b") and day_name().
abmon ==
    << "Jan", "Feb", "Mar", "Apr", "May", "Jun",
       "Jul", "Aug", "Sep", "Oct", "Nov", "Dec" >>
day_names ==
    << "Sunday", "Monday", "Tuesday", "Wednesday", "Thursday", "Friday", "Saturday" >>

\* Day of the week of a date, 0 = Sunday.
DayOfWeek(d) ==
    LET t == << 0, 3, 2, 5, 0, 3, 5, 1, 4, 6, 2, 4 >>
        y == IF d.b < 3 THEN d.a - 1 ELSE d.a
    IN  (y + y \div 4 - y \div 100 + y \div 400 + t[d.b] + d.c) % 7

\* pd.Categorical(values, categories=order): the code of a label, -1 (NaN)
\* for a label that is no category.
CategoricalCode(label, order) ==
    IF \E j \in 1..Len(order) : order[j] = label
    THEN (CHOOSE j \in 1..Len(order) : order[j] = label) - 1
    ELSE -1

Order(group_col) ==
    CASE group_col = "month" -> month_order
      [] group_col = "weekday" -> weekday_order
      [] group_col = "hour" -> hour_order
      [] OTHER -> << >>

\* The column a branch of lines 163-176 reads.
SourceCol(group_col) == IF group_col = "hour" THEN "time" ELSE "date"

\* Line 170: Series.dt.hour is float64 as soon as one time is NaT.
HourIsFloat(rows) == \E j \in 1..Len(rows) : IsNA(rows[j]["time"])

\* Line 171: strptime(str(h), "%H") raises ValueError on "13.0" and "nan".
StrptimeRaises(rows, group_col) == group_col = "hour" /\ HourIsFloat(rows)

\* The value lines 163-176 leave in df[group_col] for one row.
BucketCell(r, group_col) ==
    CASE group_col = "month" ->
           V("cat", CategoricalCode(abmon[r["date"].b], month_order), 0, 0)
      [] group_col = "weekday" ->
           V("cat", CategoricalCode(day_names[DayOfWeek(r["date"]) + 1], weekday_order), 0, 0)
      [] group_col = "hour" ->
           V("cat", CategoricalCode(Strftime12(r["time"].a), hour_order), 0, 0)
      [] OTHER -> V("str", r["date"].a, 0, 0)

\* Line 170 alone, when line 171 raises: the float hours.
FloatHour(r) == IF IsNA(r["time"]) THEN NaN ELSE Float(r["time"].a)

\* df[group_col] = cells: the frame with one more (or one replaced) column.
WithColumn(rows, group_col, cells) ==
    [ j \in 1..Len(rows) |->
        [ c \in DOMAIN rows[j] \cup {group_col} |->
            IF c = group_col THEN cells[j] ELSE rows[j][c] ] ]

\* Line 170 alone, when line 171 raises.
FloatHours(rows) == [ j \in 1..Len(rows) |-> FloatHour(rows[j]) ]

\* Lines 163-176 for the whole column.
BucketCells(rows, group_col) == [ j \in 1..Len(rows) |-> BucketCell(rows[j], group_col) ]

\* The text of a bucket on the chart's axis.
BucketLabel(group_col, key) ==
    IF group_col = "year" THEN ToString(key) ELSE Order(group_col)[key + 1]

RECURSIVE SortedSeq(_)
SortedSeq(S) ==
    IF S = {} THEN << >>
    ELSE LET m == CHOOSE x \in S : \A y \in S : x <= y
         IN  << m >> \o SortedSeq(S \ {m})

\* The flights of a frame, by the number in their flight_id.  groupby sorts
\* the ids as strings, which is the same order below flight_10.
FlightsOf(rows) ==
    { n \in 1..9 : \E j \in 1..Len(rows) : rows[j]["flight_id"] = FlightId(n) }

\* The bucket keys of one flight in the groupby result.  Rows whose key is
\* NaN (code -1) are dropped.  With observed=False (the default before
\* pandas 3) a categorical grouper yields every category for every flight;
\* with observed=True (the default from pandas 3) only the observed ones.
KeysOf(rows, group_col, fid, observed) ==
    IF group_col # "year" /\ ~observed
    THEN 0..(Len(Order(group_col)) - 1)
    ELSE { rows[j][group_col].a :
             j \in { l \in 1..Len(rows) : /\ rows[l]["flight_id"] = fid
                                          /\ rows[l][group_col].a # -1 } }

GroupRows(rows, group_col, fid, key) ==
    SelectSeq(rows, LAMBDA r : r["flight_id"] = fid /\ r[group_col].a = key)

\* DataFrameGroupBy.mean() of every metric over the rows of one group.
GroupMeans(group) ==
    [ m \in 1..Len(metrics) |-> ColMean(Column(group, metrics[m][1]), "frac", NaN) ]

\* Line 178: one record per (flight_id, bucket), in the groupby's sorted
\* order, with the mean of every metric.
AvgVals(rows, group_col, observed) ==
    LET flights == SortedSeq(FlightsOf(rows))
        block(n) ==
            LET fid == FlightId(n)
                keys == SortedSeq(KeysOf(rows, group_col, fid, observed))
            IN  [ j \in 1..Len(keys) |->
                    [ flight_id |-> fid,
                      key |-> keys[j],
                      mean |-> GroupMeans(GroupRows(rows, group_col, fid, keys[j])) ] ]
    IN  Concat([ f \in 1..Len(flights) |-> block(flights[f]) ])

\* Lines 180-186: melt, then the display names.
AvgLong(avg_vals, group_col) ==
    Concat([ m \in 1..Len(metrics) |->
               [ j \in 1..Len(avg_vals) |->
                   [ flight_id |-> avg_vals[j].flight_id,
                     bucket |-> BucketLabel(group_col, avg_vals[j].key),
                     Metric |-> metrics[m][2],
                     Value |-> avg_vals[j].mean[m] ] ] ])

\* Lines 163-186: the exception or "none", df as these lines leave it, and
\* avg_long.
Grouped(df, group_col, observed) ==
    IF SourceCol(group_col) \notin df.columns
    THEN [ err |-> "KeyError: " \o SourceCol(group_col), df |-> df, avg_long |-> << >> ]
    ELSE IF StrptimeRaises(df.rows, group_col)
    THEN [ err |-> "ValueError: strptime",
           df |-> [ columns |-> df.columns \cup {group_col},
                    rows |-> WithColumn(df.rows, group_col, FloatHours(df.rows)) ],
           avg_long |-> << >> ]
    ELSE [ err |-> "none",
           df |-> [ columns |-> df.columns \cup {group_col},
                    rows |-> WithColumn(df.rows, group_col,
                                        BucketCells(df.rows, group_col)) ],
           avg_long |-> AvgLong(AvgVals(WithColumn(df.rows, group_col,
                                                   BucketCells(df.rows, group_col)),
                                        group_col, observed),
                                group_col) ]

\* Lines 194-207: an unsupported chart_type raises inside the loop over the
\* metrics of avg_long, that is, when avg_long has a row.
ChartRaises(avg_long, chart_type) ==
    avg_long # << >> /\ chart_type \notin {"line", "bar"}

\* Lines 189-215: the dict of charts, each with its table.
Figs(avg_long, chart_type) ==
    [ metric \in { avg_long[j].Metric : j \in 1..Len(avg_long) } |->
        [ kind |-> chart_type,
          data |-> SelectSeq(avg_long, LAMBDA r : r.Metric = metric) ] ]

\* Lines 189-215 after lines 163-186: the exception or "none", and the
\* return value.
Charts(grouped, chart_type) ==
    IF grouped.err # "none"
    THEN [ err |-> grouped.err, figs |-> << >> ]
    ELSE IF ChartRaises(grouped.avg_long, chart_type)
    THEN [ err |-> "ValueError: Unsupported chart_type", figs |-> << >> ]
    ELSE [ err |-> "none", figs |-> Figs(grouped.avg_long, chart_type) ]

GroupCols == { "year", "month", "weekday", "hour" }
ChartTypes == { "line", "bar", "pie" }

\* Lines 226-229, and any other call of the function on the fleet table:
\* plot_flight_metrics(df_all, group_col, metrics, chart_type).  The script's
\* widgets offer "line" and "bar"; another caller may pass any style.  The
\* source pins no pandas version, and groupby's default for `observed`
\* differs between the versions it runs on: either is taken where the
\* grouper is categorical, the only place it matters.  The call reads
\* nothing the KPI block writes, and is taken from the same state as it.
PlotFlightMetrics ==
    /\ pc = "report"
    /\ \E group_col \in GroupCols :
       \E observed \in IF group_col = "year" THEN {TRUE} ELSE BOOLEAN :
       \E grouped \in { Grouped(df_all, group_col, observed) } :
       \E chart_type \in ChartTypes :
       \E res \in { Charts(grouped, chart_type) } :
          /\ call' = [ made |-> TRUE, group_col |-> group_col,
                       chart_type |-> chart_type, returned |-> res.err = "none" ]
          /\ df_all' = grouped.df
          /\ figs' = res.figs
          /\ err' = res.err
          /\ pc' = IF res.err = "none" THEN "charts" ELSE "error"
    /\ UNCHANGED << all_files, i, flight_summaries, gps_data, all_dfs,
                    flight_summary, gps_all, kpi >>

(***************************************************************************)
(* What the claims speak of.                                               *)
(***************************************************************************)
\* The content of the k-th file of the run.
In(k) == FileContent(all_files[k])

\* The raw cell of column c in row j of a file, NA when the file lacks c.
RawCell(file, j, c) == IF c \in file.header THEN file.rows[j][c] ELSE NA

\* The file had rows and the date filter dropped every one of them.
AllDropped(k) == Len(In(k).rows) > 0 /\ all_dfs[k] = << >>

\* The KPI block has run (to its end or to an exception).
KpiRan == kpi # NoKpi \/ err = "KeyError: flight_id"

LoadFailed == err = "ValueError: missing parse_dates column"

ExpectedIds == << "flight_1", "flight_2", "flight_3", "flight_4" >>

\* C1 as stated: total_flights equals the number of loaded files minus the
\* number of files whose every row was dropped by the date filter.
C1_AsStated ==
    kpi.computed =>
        kpi.total_flights = i - Cardinality({ k \in 1..i : AllDropped(k) })

\* C1, amended: once the KPI block has run on a non-empty list of files,
\* total_flights equals the number of loaded files, which is all of them,
\* files whose every row was dropped included.
C1_TotalFlights ==
    (KpiRan /\ all_files # << >>) =>
        /\ "total_flights" \in DOMAIN kpi
        /\ kpi.total_flights = Len(all_files)
        /\ i = Len(all_files)

C1_Witness ==
    /\ kpi.computed
    /\ kpi.total_flights = 2
    /\ \E k \in 1..i : AllDropped(k)

\* C2 as stated: whatever subset or superset of the required columns a
\* file's header is, loading raises no error, and the loaded frame has all
\* 16 required columns, missing in every row where the file lacks them, and
\* none of the file's other columns.
C2_AsStated ==
    /\ ~LoadFailed
    /\ \A k \in 1..Len(all_dfs) : \A j \in 1..Len(all_dfs[k]) :
          /\ RequiredSet \subseteq DOMAIN all_dfs[k][j]
          /\ ExtraCol \notin DOMAIN all_dfs[k][j]
          /\ \A c \in RequiredSet \ In(k).header : IsNA(all_dfs[k][j][c])

\* C3 as stated: a call of plot_flight_metrics with a chart style other
\* than "line" and "bar" never returns normally, whatever the fleet table.
C3_AsStated ==
    (call.made /\ call.chart_type \notin {"line", "bar"}) =>
        /\ ~call.returned
        /\ err # "none"
        /\ figs = << >>

\* C4 as stated: a row whose time is malformed and whose date parses gets a
\* missing time and stays in the fleet table, and grouping a fleet table
\* that holds such a row by year, month, weekday or hour raises nothing.
C4_AsStated ==
    /\ \A k \in 1..Len(all_dfs) :
          Len(all_dfs[k]) =
              Cardinality({ j \in 1..Len(In(k).rows) :
                              ~IsNA(ToDate(RawCell(In(k), j, "clock.currentDate"))) })
    /\ (call.made /\ call.chart_type \in {"line", "bar"}
          /\ \E j \in 1..Len(df_all.rows) : IsNA(df_all.rows[j]["time"]))
       => (call.returned /\ err = "none")

\* C5 as stated: with no input file nothing raises, the combined tables are
\* empty, total_flights is 0 and the other tiles read 0 or N/A.
C5_AsStated ==
    all_files = << >> =>
        /\ err = "none"
        /\ pc # "error"
        /\ df_all.rows = << >>
        /\ flight_summary.rows = << >>
        /\ kpi.computed =>
              /\ kpi.total_flights = 0
              /\ \A t \in 2..Len(kpi.tiles) : kpi.tiles[t] \in {"N/A", "0", "0.00", "00:00:00"}
        /\ pc = "tiles" => kpi.computed

\* The rows of one flight in a chart's table, in the table's order.
FlightData(data, fid) == SelectSeq(data, LAMBDA r : r.flight_id = fid)

\* The place of a label in a list of labels, 0 when it is not there.
Place(label, order) ==
    IF \E j \in 1..Len(order) : order[j] = label
    THEN CHOOSE j \in 1..Len(order) : order[j] = label
    ELSE 0

\* The rows of a buckets table stand in the order of `order`, bucket by bucket.
InOrder(data, order) ==
    \A j \in 1..(Len(data) - 1) :
        Place(data[j].bucket, order) < Place(data[j + 1].bucket, order)

\* v is the exact mean of the present cells of col, missing when none is.
IsMeanOf(v, col) ==
    IF Present(col) = {} THEN IsNA(v)
    ELSE /\ ~IsNA(v)
         /\ v.a * Cardinality(Present(col)) = SumOver(col, Present(col)) * v.b

\* C6 as stated: grouping by month gives each flight exactly one bucket for
\* each month in which it has a row and none for the other months, in
\* calendar order, valued with the mean of the metric over the flight's
\* rows of that month.
C6_AsStated ==
    (call.made /\ call.returned /\ call.group_col = "month") =>
        \A m \in 1..Len(metrics) : \A n \in FlightsOf(df_all.rows) :
            LET mine == SelectSeq(df_all.rows, LAMBDA r : r["flight_id"] = FlightId(n))
                months == { month_order[mine[j]["date"].b] : j \in 1..Len(mine) }
                data == FlightData(figs[metrics[m][2]].data, FlightId(n))
            IN  /\ { data[j].bucket : j \in 1..Len(data) } = months
                /\ Len(data) = Cardinality(months)
                /\ InOrder(data, month_order)
                /\ \A j \in 1..Len(data) :
                      IsMeanOf(data[j].Value,
                               Column(SelectSeq(mine, LAMBDA r :
                                          month_order[r["date"].b] = data[j].bucket),
                                      metrics[m][1]))

\* The 24 labels of the 12-hour clock, midnight first.
Clock12 ==
    << "12 AM", "01 AM", "02 AM", "03 AM", "04 AM", "05 AM",
       "06 AM", "07 AM", "08 AM", "09 AM", "10 AM", "11 AM",
       "12 PM", "01 PM", "02 PM", "03 PM", "04 PM", "05 PM",
       "06 PM", "07 PM", "08 PM", "09 PM", "10 PM", "11 PM" >>

\* C7: grouping by hour yields no bucket label outside the 24 labels of the
\* 12-hour clock, and every flight's buckets stand in the order 12 AM, 01 AM,
\* ..., 11 PM, whichever hours the data holds.
C7_HourBuckets ==
    (call.made /\ call.returned /\ call.group_col = "hour") =>
        \A d \in DOMAIN figs :
            /\ \A j \in 1..Len(figs[d].data) : Place(figs[d].data[j].bucket, Clock12) > 0
            /\ \A fid \in { figs[d].data[j].flight_id : j \in 1..Len(figs[d].data) } :
                  InOrder(FlightData(figs[d].data, fid), Clock12)

C7_Witness ==
    /\ call.made /\ call.returned /\ call.group_col = "hour"
    /\ \E d \in DOMAIN figs :
          /\ Len(figs[d].data) = 2
          /\ figs[d].data[1].flight_id = figs[d].data[2].flight_id
          /\ figs[d].data[1].bucket = "12 AM"
          /\ figs[d].data[2].bucket = "01 PM"

\* The statistics of a summary: name, source column, reduction.
Stats ==
    { << "flight_time", "flightTime", "max" >>,
      << "flight_distance", "flightDistance", "max" >>,
      << "max_altitude", "altitudeRelative", "max" >>,
      << "max_ground_speed", "groundSpeed", "max" >>,
      << "max_air_speed", "airSpeed", "max" >>,
      << "min_battery", "battery0.percentRemaining", "min" >>,
      << "avg_power", "battery0.instantPower", "round" >>,
      << "avg_altitude", "altitudeRelative", "round" >>,
      << "avg_flight_time", "flightTime", "mean" >>,
      << "avg_flight_distance", "flightDistance", "round" >>,
      << "avg_ground_speed", "groundSpeed", "round" >>,
      << "avg_air_speed", "airSpeed", "round" >>,
      << "avg_battery_remaining", "battery0.percentRemaining", "round" >> }

\* The value v is right for the reduction `how` of the cells of col, of
\* which those at P are the present ones and sum their sum.
RightFor(v, col, how, P, sum) ==
    /\ IsNA(v) <=> P = {}
    /\ P # {} =>
          CASE how = "max" -> /\ \E j \in P : col[j].a = v.a
                              /\ \A j \in P : col[j].a <= v.a
            [] how = "min" -> /\ \E j \in P : col[j].a = v.a
                              /\ \A j \in P : v.a <= col[j].a
            [] how = "mean" -> v.a * Cardinality(P) = sum * v.b
            [] OTHER -> /\ 2 * (100 * sum - v.a * Cardinality(P)) <= Cardinality(P)
                        /\ 2 * (v.a * Cardinality(P) - 100 * sum) <= Cardinality(P)

\* C8: every statistic of every flight is missing exactly when its source
\* column has no present value among the flight's surviving rows, and is
\* otherwise the maximum, minimum or (rounded) mean of the present values
\* alone.
C8_MissingPropagation ==
    \A k \in 1..Len(flight_summaries) : \A c \in { st[2] : st \in Stats } :
    \A col \in { Column(all_dfs[k], c) } :
    \A P \in { Present(col) } : \A sum \in { SumOver(col, P) } :
    \A st \in { t \in Stats : t[2] = c } :
        RightFor(flight_summaries[k][st[1]], col, st[3], P, sum)

C8_Witness ==
    \E k \in 1..Len(flight_summaries) :
        /\ Len(all_dfs[k]) = 2
        /\ IsNA(all_dfs[k][1]["groundSpeed"])
        /\ ~IsNA(all_dfs[k][2]["groundSpeed"])
        /\ ~IsNA(flight_summaries[k].avg_air_speed)
        /\ IsNA(flight_summaries[k].avg_ground_speed) = FALSE

\* C9: after n files the summary list holds n records, the k-th made from
\* the k-th file and named flight_k, all names distinct; a file whose rows
\* were all dropped has its record too.
C9_OneSummaryPerFile ==
    /\ Len(flight_summaries) = i
    /\ (pc # "load" /\ ~LoadFailed) => i = Len(all_files)
    /\ \A k \in 1..i : \A file \in { In(k) } :
       \A dist \in { { RawCell(file, j, "flightDistance").a :
                         j \in { l \in 1..Len(file.rows) :
                                   /\ ~IsNA(ToDate(RawCell(file, l, "clock.currentDate")))
                                   /\ RawCell(file, l, "flightDistance").k = "num" } } } :
          /\ flight_summaries[k].flight_id = ExpectedIds[k]
          /\ IsNA(flight_summaries[k].flight_distance) <=> dist = {}
          /\ dist # {} =>
                /\ flight_summaries[k].flight_distance.a \in dist
                /\ \A x \in dist : x <= flight_summaries[k].flight_distance.a
    /\ \A k, l \in 1..i :
          k # l => flight_summaries[k].flight_id # flight_summaries[l].flight_id

C9_Witness ==
    /\ i = 2
    /\ AllDropped(1)
    /\ Len(all_dfs[2]) > 0
    /\ Len(flight_summaries) = 2

RECURSIVE RowsBefore(_)
RowsBefore(k) == IF k <= 1 THEN 0 ELSE Len(all_dfs[k - 1]) + RowsBefore(k - 1)

\* The places, in order, of the rows of a file whose date parses.
DatedPlaces(file) ==
    SelectSeq([ j \in 1..Len(file.rows) |-> j ],
              LAMBDA j : ~IsNA(ToDate(RawCell(file, j, "clock.currentDate"))))

\* C10: every row of a loaded frame, of the fleet table and of the GPS table
\* is a row of its file whose date parsed; the rows of a file whose date did
\* not parse are in none of them, and the others keep their order.
C10_DatedRowsOnly ==
    /\ \A k \in 1..Len(all_dfs) : \A file \in { In(k) } :
       \A kept \in { DatedPlaces(file) } :
          /\ Len(all_dfs[k]) = Len(kept)
          /\ Len(gps_data[k]) = Len(kept)
          /\ \A j \in 1..Len(all_dfs[k]) :
                /\ ~IsNA(all_dfs[k][j]["date"])
                /\ all_dfs[k][j]["gps.lat"] = RawCell(file, kept[j], "gps.lat")
                /\ all_dfs[k][j]["clock.currentDate"]
                      = RawCell(file, kept[j], "clock.currentDate")
                /\ gps_data[k][j]["gps.lat"] = all_dfs[k][j]["gps.lat"]
                /\ gps_data[k][j]["flight_id"] = all_dfs[k][j]["flight_id"]
    /\ (pc # "load" /\ ~LoadFailed) =>
          /\ Len(df_all.rows) = RowsBefore(Len(all_dfs) + 1)
          /\ Len(gps_all.rows) = Len(df_all.rows)
          /\ \A k \in 1..Len(all_dfs) : \A off \in { RowsBefore(k) } :
             \A j \in 1..Len(all_dfs[k]) :
                /\ ~IsNA(df_all.rows[off + j]["date"])
                /\ \A c \in { "flight_id", "gps.lat", "clock.currentDate", "date" } :
                      df_all.rows[off + j][c] = all_dfs[k][j][c]
                /\ gps_all.rows[off + j] = gps_data[k][j]

C10_Witness ==
    /\ pc = "report"
    /\ Len(all_files) = 1
    /\ Len(In(1).rows) = 2
    /\ IsNA(ToDate(RawCell(In(1), 1, "clock.currentDate")))
    /\ Len(df_all.rows) = 1
    /\ Len(gps_all.rows) = 1

Next == LoadFile \/ Combine \/ Kpis \/ PlotFlightMetrics

Spec == Init /\ [][Next]_vars

====
